---- MODULE Spec2Model ----
(***************************************************************************)
(* Model of the Back-To-Top-Button plugin for Obsidian (src/main.js).      *)
(*                                                                         *)
(* The plugin instance (settings, the two floating elements, the heading   *)
(* list, the debounce closure) and the part of the host it reads (active   *)
(* leaf, document text, container width, persisted data.json, timer queue, *)
(* event listeners) are the state.  Every event handler of the plugin is   *)
(* one action; an async handler is two actions, split at its await.        *)
(***************************************************************************)
EXTENDS Integers, Sequences, FiniteSets, TLC

VARIABLES
    settings,     \* this.settings: object, key -> boolean (absent key = undefined)
    stored,       \* content of data.json as loadData() returns it (no key = no file)
    pending,      \* toggle handlers suspended at `await saveSettings()`: their serialised data
    panel,        \* controls rendered by BackToTopSettingsTab.display()
    loaded,       \* plugin lifecycle: TRUE between onload and onunload
    surface,      \* what app.workspace.activeLeaf shows
    doc,          \* text of each note, a sequence of lines
    clientWidth,  \* clientWidth of each editor container, in px
    plugin,       \* topButton, menuContainer, headerList and the registered layout listeners
    timers,       \* host timer queue: remaining time of each pending setTimeout
    sinceCall,    \* observation: time elapsed since refreshHeaderListDebounced was last called
    calls,        \* observation: calls of refreshHeaderListDebounced in the current burst
    burstRuns     \* observation: runs of the wrapped action since the last call

vars == <<settings, stored, pending, panel, loaded, surface, doc, clientWidth,
          plugin, timers, sinceCall, calls, burstRuns>>

(***************************************************************************)
(* Bounds of the model.                                                    *)
(***************************************************************************)
MaxPending == 2      \* toggle handlers suspended at the same time
MaxListeners == 2    \* layout-change listeners registered by updateMenu in one session
MaxCalls == 3        \* calls counted in one debounce burst
TickStep == 50       \* largest amount of time one Tick lets pass
MaxHashes == 7       \* longest run of leading '#' in a generated line
MaxTail == 2         \* length of what follows the '#' run in a generated line
MaxLines == 3        \* lines of a generated document
WidthStep == 100     \* distance in pixels between the widths of the grid
MaxWidthSteps == 20  \* steps of the grid of container widths

(***************************************************************************)
(* Program constants.                                                      *)
(***************************************************************************)
Delay == 150         \* debounce delay
MinMenuWidth == 120  \* Math.max(120, ...)
HashLimit == 6       \* #{1,6}
TierLimit == 3       \* level > 3 is never rendered
IndentStep == 12     \* paddingLeft: (level - 1) * 12
MenuBottom == 75
TopBottom == 30
RightOffset == 30

Max(a, b) == IF a >= b THEN a ELSE b
Min(a, b) == IF a <= b THEN a ELSE b

(***************************************************************************)
(* Settings objects.  A JavaScript object is a function from the keys it   *)
(* has to their values; a key that is absent reads as undefined.           *)
(***************************************************************************)
Tiers == 1..TierLimit
ShowKey(level) ==
    CASE level = 1 -> "showH1" [] level = 2 -> "showH2" [] OTHER -> "showH3"
PrevKey(level) ==
    CASE level = 1 -> "previousShowH1" [] level = 2 -> "previousShowH2"
      [] OTHER -> "previousShowH3"

EmptyObject == [k \in {} |-> TRUE]

\* o[k] = v on an object
Put(o, k, v) == [x \in (DOMAIN o) \cup {k} |-> IF x = k THEN v ELSE o[x]]

\* o[k] ?? d
Nullish(o, k, d) == IF k \in DOMAIN o THEN o[k] ELSE d

\* Object.assign(target, source)
ObjectAssign(target, source) ==
    [x \in (DOMAIN target) \cup (DOMAIN source) |->
        IF x \in DOMAIN source THEN source[x] ELSE target[x]]

DefaultSettings ==
    [k \in {"enableHeaderMenu", "showH1", "showH2", "showH3"} |-> TRUE]

loadSettings(data) == ObjectAssign(DefaultSettings, data)

\* the synchronous part of the 'Enable Header Menu' onChange handler
toggleMenuEnabled_SnapshotAfterClear(s, value) ==
    LET s1 == Put(s, "enableHeaderMenu", value) IN
    IF ~value
    THEN LET c1 == Put(Put(Put(s1, "showH1", FALSE), "showH2", FALSE), "showH3", FALSE)
         IN Put(Put(Put(c1, "previousShowH1", c1["showH1"]),
                        "previousShowH2", c1["showH2"]),
                        "previousShowH3", c1["showH3"])
    ELSE Put(Put(Put(s1, "showH1", Nullish(s1, "previousShowH1", TRUE)),
                         "showH2", Nullish(s1, "previousShowH2", TRUE)),
                         "showH3", Nullish(s1, "previousShowH3", TRUE))

toggleMenuEnabled_KeepsTiers(s, value) ==
    LET s1 == Put(s, "enableHeaderMenu", value) IN
    IF ~value
    THEN Put(Put(Put(s1, "previousShowH1", s1["showH1"]),
                         "previousShowH2", s1["showH2"]),
                         "previousShowH3", s1["showH3"])
    ELSE Put(Put(Put(s1, "showH1", Nullish(s1, "previousShowH1", TRUE)),
                         "showH2", Nullish(s1, "previousShowH2", TRUE)),
                         "showH3", Nullish(s1, "previousShowH3", TRUE))

toggleMenuEnabled_GuardedSnapshot(s, value) ==
    LET s1 == Put(s, "enableHeaderMenu", value) IN
    IF ~value
    THEN LET p1 == IF s["enableHeaderMenu"]
                   THEN Put(Put(Put(s1, "previousShowH1", s1["showH1"]),
                                        "previousShowH2", s1["showH2"]),
                                        "previousShowH3", s1["showH3"])
                   ELSE s1
         IN Put(Put(Put(p1, "showH1", FALSE), "showH2", FALSE), "showH3", FALSE)
    ELSE Put(Put(Put(s1, "showH1", Nullish(s1, "previousShowH1", TRUE)),
                         "showH2", Nullish(s1, "previousShowH2", TRUE)),
                         "showH3", Nullish(s1, "previousShowH3", TRUE))

toggleMenuEnabled(s, value) ==
    LET s1 == Put(s, "enableHeaderMenu", value) IN
    IF ~value
    THEN LET p1 == Put(Put(Put(s1, "previousShowH1", s1["showH1"]),
                                   "previousShowH2", s1["showH2"]),
                                   "previousShowH3", s1["showH3"])
         IN Put(Put(Put(p1, "showH1", FALSE), "showH2", FALSE), "showH3", FALSE)
    ELSE Put(Put(Put(s1, "showH1", Nullish(s1, "previousShowH1", TRUE)),
                         "showH2", Nullish(s1, "previousShowH2", TRUE)),
                         "showH3", Nullish(s1, "previousShowH3", TRUE))

\* the synchronous part of a 'Show Hn' onChange handler
toggleTier_NoEnable(s, level, value) == Put(s, ShowKey(level), value)

toggleTier(s, level, value) ==
    LET s1 == Put(s, ShowKey(level), value)
    IN IF value THEN Put(s1, "enableHeaderMenu", TRUE) ELSE s1

\* BackToTopSettingsTab.display(): the controls in the settings panel
display(s) ==
    {"Enable Header Menu"} \cup
    (IF s["enableHeaderMenu"] THEN {"Show H1", "Show H2", "Show H3"} ELSE {})

TierControl(level) ==
    CASE level = 1 -> "Show H1" [] level = 2 -> "Show H2" [] OTHER -> "Show H3"

(***************************************************************************)
(* The host workspace as the plugin reads it.                              *)
(***************************************************************************)
Notes == {"note1", "note2"}
Detached == "detached"        \* parentElement of a node that is in no tree

\* what app.workspace.activeLeaf can be: nothing, a non-markdown view, or a
\* note in preview mode, in source mode before its editor element exists,
\* or in source mode with its '.cm-s-obsidian' element (named after the note)
Surfaces ==
    {[leaf |-> "none", viewType |-> "none", mode |-> "none", editorEl |-> FALSE],
     [leaf |-> "graph", viewType |-> "graph", mode |-> "none", editorEl |-> FALSE]}
    \cup {[leaf |-> n, viewType |-> "markdown", mode |-> "preview", editorEl |-> FALSE] : n \in Notes}
    \cup {[leaf |-> n, viewType |-> "markdown", mode |-> "source", editorEl |-> b] :
             n \in Notes, b \in BOOLEAN}

\* the surfaces one leaf can move between without the active leaf changing
SameLeaf(sf) == {t \in Surfaces : t.leaf = sf.leaf}

\* updateMenu's test of the active leaf, and the container it then looks up
Editable(sf) == sf.viewType = "markdown" /\ sf.mode = "source" /\ sf.editorEl
HasEditor(sf) == sf.viewType = "markdown"   \* view.sourceMode.cmEditor
HasActiveFile(sf) == sf.leaf \in Notes      \* workspace.getActiveFile()

(***************************************************************************)
(* Documents: a line is a sequence of characters.                          *)
(***************************************************************************)
Alphabet == {"#", " ", "a"}
Whitespace == {" "}

Hashes(n) == [i \in 1..n |-> "#"]
HeadingLine(n) == Hashes(n) \o <<" ", "a">>

Drop(seq, n) == [i \in 1..(Len(seq) - n) |-> seq[i + n]]

\* line.match(/^(#{1,6})\s+(.*)/): the empty set when there is no match, else
\* one record of the two groups.  #{1,6} is tried greedily from 6 down; \s+
\* takes the whole whitespace run; (.*) takes the rest, which may be empty.
headerMatch(line) ==
    LET K == {k \in 1..HashLimit :
                 /\ k <= Len(line)
                 /\ \A i \in 1..k : line[i] = "#"
                 /\ k < Len(line)
                 /\ line[k + 1] \in Whitespace}
    IN IF K = {} THEN {}
       ELSE LET k == CHOOSE x \in K : \A y \in K : y <= x
                W == {w \in 1..(Len(line) - k) :
                         \A i \in 1..w : line[k + i] \in Whitespace}
                w == CHOOSE x \in W : \A y \in W : y <= x
            IN {[hashes |-> k, text |-> Drop(line, k + w)]}

\* the test of lines 161-164: TRUE when the heading is skipped
Skipped_IgnoresTierLimit(s, level) ==
    \/ level = 1 /\ ~s["showH1"]
    \/ level = 2 /\ ~s["showH2"]
    \/ level = 3 /\ ~s["showH3"]

Skipped(s, level) ==
    \/ level = 1 /\ ~s["showH1"]
    \/ level = 2 /\ ~s["showH2"]
    \/ level = 3 /\ ~s["showH3"]
    \/ level > TierLimit

\* the forEach of refreshHeaderList from line i on, appending to acc
RECURSIVE RenderLines(_, _, _, _)
RenderLines(lines, i, s, acc) ==
    IF i > Len(lines) THEN acc
    ELSE LET m == headerMatch(lines[i]) IN
         IF m = {} THEN RenderLines(lines, i + 1, s, acc)
         ELSE LET h == CHOOSE x \in m : TRUE
                  level == h.hashes
              IN IF Skipped(s, level) THEN RenderLines(lines, i + 1, s, acc)
                 ELSE RenderLines(lines, i + 1, s,
                        Append(acc, [innerText |-> h.text,
                                     line |-> i - 1,
                                     paddingLeft |-> (level - 1) * IndentStep]))

(***************************************************************************)
(* The plugin's elements.  plugin is a record:                             *)
(*   topButton      [parentElement, width, bottom, right]                  *)
(*   menuContainer  [parentElement, display, width, bottom, right]         *)
(*   headerList     the rendered items, in order                           *)
(*   layoutListeners  the container captured by each layout-change         *)
(*                  listener that updateMenu registered, oldest first      *)
(* A width is kept in tenths of a pixel so that editorWidth * 0.1 is exact;*)
(* 0 stands for a style property that was never set.                       *)
(***************************************************************************)
createFloatingElements ==
    [topButton |-> [parentElement |-> Detached, width |-> 0, bottom |-> 0, right |-> 0],
     menuContainer |-> [parentElement |-> Detached, display |-> "none",
                        width |-> 0, bottom |-> 0, right |-> 0],
     headerList |-> <<>>,
     layoutListeners |-> <<>>]

removeFloatingElements_Noop(p) == p

removeFloatingElements_KeepsMenu(p) ==
    [p EXCEPT !.topButton.parentElement = Detached]

removeFloatingElements(p) ==
    [p EXCEPT !.menuContainer.parentElement = Detached,
              !.topButton.parentElement = Detached]

positionFloatingElements_NoFloor(p, editorContainer, cw) ==
    LET editorWidth == cw[editorContainer]
        menuWidth == editorWidth
    IN [p EXCEPT !.menuContainer.width = menuWidth,
                 !.menuContainer.bottom = MenuBottom,
                 !.menuContainer.right = RightOffset,
                 !.topButton.right = RightOffset,
                 !.topButton.bottom = TopBottom,
                 !.topButton.width = menuWidth]

positionFloatingElements(p, editorContainer, cw) ==
    LET editorWidth == cw[editorContainer]
        menuWidth == Max(MinMenuWidth * 10, editorWidth)
    IN [p EXCEPT !.menuContainer.width = menuWidth,
                 !.menuContainer.bottom = MenuBottom,
                 !.menuContainer.right = RightOffset,
                 !.topButton.right = RightOffset,
                 !.topButton.bottom = TopBottom,
                 !.topButton.width = menuWidth]

refreshHeaderList_ClearAfterChecks(p, s, sf, d) ==
    IF ~HasActiveFile(sf) THEN p
    ELSE IF ~HasEditor(sf) THEN p
    ELSE [p EXCEPT !.headerList = RenderLines(d[sf.leaf], 1, s, <<>>)]

refreshHeaderList(p, s, sf, d) ==
    IF ~HasActiveFile(sf) THEN [p EXCEPT !.headerList = <<>>]
    ELSE IF ~HasEditor(sf) THEN [p EXCEPT !.headerList = <<>>]
    ELSE [p EXCEPT !.headerList = RenderLines(d[sf.leaf], 1, s, <<>>)]

updateMenu_MenuAlways(p, s, sf, cw, d) ==
    LET p0 == removeFloatingElements(p) IN
    IF Editable(sf)
    THEN LET editorContainer == sf.leaf
             p1 == [p0 EXCEPT !.topButton.parentElement = editorContainer]
             p2 == positionFloatingElements(p1, editorContainer, cw)
             p3 == [p2 EXCEPT !.menuContainer.parentElement = editorContainer,
                              !.menuContainer.display = "block"]
             p4 == refreshHeaderList(p3, s, sf, d)
         IN [p4 EXCEPT !.layoutListeners = Append(@, editorContainer)]
    ELSE p0

updateMenu(p, s, sf, cw, d) ==
    LET p0 == removeFloatingElements(p) IN
    IF sf.viewType = "markdown" /\ sf.mode = "source"
    THEN IF sf.editorEl
         THEN LET editorContainer == sf.leaf
                  p1 == [p0 EXCEPT !.topButton.parentElement = editorContainer]
                  p2 == positionFloatingElements(p1, editorContainer, cw)
              IN IF s["enableHeaderMenu"]
                 THEN LET p3 == [p2 EXCEPT !.menuContainer.parentElement = editorContainer,
                                           !.menuContainer.display = "block"]
                          p4 == refreshHeaderList(p3, s, sf, d)
                      IN [p4 EXCEPT !.layoutListeners = Append(@, editorContainer)]
                 ELSE p2
         ELSE p0
    ELSE p0

\* the layout-change listeners registered by updateMenu, run oldest first
RECURSIVE RunLayoutListeners(_, _, _)
RunLayoutListeners(p, listeners, cw) ==
    IF listeners = <<>> THEN p
    ELSE RunLayoutListeners(positionFloatingElements(p, Head(listeners), cw),
                            Tail(listeners), cw)

\* dispatch of 'layout-change': the listener of onload (updateMenu), then the
\* listeners that were registered when the dispatch began
layoutChange(p, s, sf, cw, d) ==
    RunLayoutListeners(updateMenu(p, s, sf, cw, d), p.layoutListeners, cw)

(***************************************************************************)
(* The debounce closure and the host timer queue.  The closure's `timer`   *)
(* is the handle of the timeout it scheduled last, which is the one with   *)
(* the most time remaining.                                                *)
(***************************************************************************)
clearTimeout(ts) ==
    IF ts = {} THEN {} ELSE ts \ {CHOOSE t \in ts : \A u \in ts : u <= t}

\* one call of the function debounce() returns
debounce_NoClear(ts) == ts \cup {Delay}

debounce(ts) == clearTimeout(ts) \cup {Delay}

\* headerList is appended to menuContainer when it is created, and nothing
\* removes it: this.headerList?.parentElement
headerListParent(p) == "menuContainer"

\* the action wrapped by debounce in onload
refreshIfListed(p, s, sf, d) ==
    IF headerListParent(p) # Detached THEN refreshHeaderList(p, s, sf, d) ELSE p

(***************************************************************************)
(* Initial state: a first installation after onload has returned.          *)
(***************************************************************************)
InitialDocs ==
    [n \in Notes |->
        IF n = "note1"
        THEN <<HeadingLine(1), HeadingLine(2), HeadingLine(3), HeadingLine(4)>>
        ELSE <<HeadingLine(2), <<"a">>, HeadingLine(1)>>]

InitialWidths == [n \in Notes |-> IF n = "note1" THEN 1000 ELSE 2000]

EditDocs ==
    {<<HeadingLine(1)>>, <<HeadingLine(3), HeadingLine(1)>>, <<<<"a">>>>}

Init ==
    /\ stored = EmptyObject
    /\ settings = loadSettings(stored)
    /\ pending = <<>>
    /\ panel = {}
    /\ loaded = TRUE
    /\ surface \in Surfaces
    /\ doc = InitialDocs
    /\ clientWidth = InitialWidths
    /\ plugin = createFloatingElements
    /\ timers = {}
    /\ sinceCall = 0
    /\ calls = 0
    /\ burstRuns = 0

observations == <<sinceCall, calls, burstRuns>>

(***************************************************************************)
(* Settings tab.                                                           *)
(***************************************************************************)
\* the host shows the tab and calls display()
OpenSettings ==
    /\ loaded
    /\ panel' = display(settings)
    /\ UNCHANGED <<settings, stored, pending, loaded, surface, doc, clientWidth,
                   plugin, timers, observations>>

\* 'Enable Header Menu' onChange(value), up to `await this.plugin.saveSettings()`.
\* The value is whatever the host's toggle component passes; saveData
\* serialises the settings when it is called.
ToggleMenuEnabled(value) ==
    /\ loaded
    /\ "Enable Header Menu" \in panel
    /\ Len(pending) < MaxPending
    /\ settings' = toggleMenuEnabled(settings, value)
    /\ pending' = Append(pending, settings')
    /\ UNCHANGED <<stored, panel, loaded, surface, doc, clientWidth, plugin,
                   timers, observations>>

\* 'Show Hn' onChange(value), up to `await this.plugin.saveSettings()`
ToggleTier(level, value) ==
    /\ loaded
    /\ TierControl(level) \in panel
    /\ Len(pending) < MaxPending
    /\ settings' = toggleTier(settings, level, value)
    /\ pending' = Append(pending, settings')
    /\ UNCHANGED <<stored, panel, loaded, surface, doc, clientWidth, plugin,
                   timers, observations>>

\* what an onChange handler does after its await: updateMenu(), display()
afterSave_NoUpdate(p, s, sf, cw, d) == p

afterSave(p, s, sf, cw, d) == updateMenu(p, s, sf, cw, d)

\* the oldest write to data.json completes (the host writes in the order of the
\* calls) and its handler resumes
SaveDone ==
    /\ pending # <<>>
    /\ stored' = Head(pending)
    /\ pending' = Tail(pending)
    /\ plugin' = afterSave(plugin, settings, surface, clientWidth, doc)
    /\ Len(plugin'.layoutListeners) <= MaxListeners
    /\ panel' = display(settings)
    /\ UNCHANGED <<settings, loaded, surface, doc, clientWidth, timers, observations>>

(***************************************************************************)
(* Workspace events.                                                       *)
(***************************************************************************)
\* 'active-leaf-change': the active leaf becomes sf (possibly the same)
ActiveLeafChange(sf) ==
    /\ loaded
    /\ surface' = sf
    /\ plugin' = updateMenu(plugin, settings, sf, clientWidth, doc)
    /\ Len(plugin'.layoutListeners) <= MaxListeners
    /\ UNCHANGED <<settings, stored, pending, panel, loaded, doc, clientWidth,
                   timers, observations>>

\* 'layout-change': the active leaf stays, its view may change mode or get
\* its editor element
LayoutChange(sf) ==
    /\ loaded
    /\ sf \in SameLeaf(surface)
    /\ surface' = sf
    /\ plugin' = layoutChange(plugin, settings, sf, clientWidth, doc)
    /\ Len(plugin'.layoutListeners) <= MaxListeners
    /\ UNCHANGED <<settings, stored, pending, panel, loaded, doc, clientWidth,
                   timers, observations>>

(***************************************************************************)
(* Lifecycle.                                                              *)
(***************************************************************************)
\* onunload; the host then drops what registerEvent and addSettingTab added.
\* Timeouts and suspended handlers are not the host's to drop.
Unload ==
    /\ loaded
    /\ loaded' = FALSE
    /\ plugin' = [removeFloatingElements(plugin) EXCEPT !.layoutListeners = <<>>]
    /\ panel' = {}
    /\ UNCHANGED <<settings, stored, pending, surface, doc, clientWidth, timers,
                   observations>>

\* the plugin is enabled again: a new instance runs onload.  Modelled only
\* when the previous instance has left nothing behind.
Load ==
    /\ ~loaded
    /\ pending = <<>>
    /\ timers = {}
    /\ plugin.layoutListeners = <<>>
    /\ plugin.topButton.parentElement = Detached
    /\ plugin.menuContainer.parentElement = Detached
    /\ loaded' = TRUE
    /\ settings' = loadSettings(stored)
    /\ plugin' = createFloatingElements
    /\ panel' = {}
    /\ UNCHANGED <<stored, pending, surface, doc, clientWidth, timers, observations>>

(***************************************************************************)
(* Editing and time.                                                       *)
(***************************************************************************)
TimerDue == 0 \in timers

\* 'editor-change': the text of the active note becomes d and
\* refreshHeaderListDebounced is called.  A timer that is due fires first.
EditorChange(d) ==
    /\ loaded
    /\ Editable(surface)
    /\ ~TimerDue
    /\ timers # {} => calls < MaxCalls
    /\ doc' = [doc EXCEPT ![surface.leaf] = d]
    /\ timers' = debounce(timers)
    /\ sinceCall' = 0
    /\ calls' = IF timers = {} THEN 1 ELSE calls + 1
    /\ burstRuns' = 0
    /\ UNCHANGED <<settings, stored, pending, panel, loaded, surface, clientWidth, plugin>>

\* time passes while a timeout is pending, never beyond the next expiry
Tick ==
    /\ timers # {}
    /\ ~TimerDue
    /\ LET next == CHOOSE t \in timers : \A u \in timers : t <= u
           step == Min(TickStep, next)
       IN /\ timers' = {t - step : t \in timers}
          /\ sinceCall' = sinceCall + step
    /\ UNCHANGED <<settings, stored, pending, panel, loaded, surface, doc,
                   clientWidth, plugin, calls, burstRuns>>

\* a timeout expires: the wrapped action runs
TimerFire ==
    /\ TimerDue
    /\ timers' = timers \ {0}
    /\ plugin' = refreshIfListed(plugin, settings, surface, doc)
    /\ burstRuns' = burstRuns + 1
    /\ UNCHANGED <<settings, stored, pending, panel, loaded, surface, doc,
                   clientWidth, sinceCall, calls>>

\* the text of the active note changes while the plugin is unloaded: the host
\* has dropped the 'editor-change' listener, nothing of the plugin is called
EditUnloaded(d) ==
    /\ ~loaded
    /\ Editable(surface)
    /\ doc[surface.leaf] # d
    /\ doc' = [doc EXCEPT ![surface.leaf] = d]
    /\ UNCHANGED <<settings, stored, pending, panel, loaded, surface, clientWidth,
                   plugin, timers, observations>>

\* the host resizes the editor container of note n to w pixels; the plugin
\* listens to no resize event, so nothing of it runs
Resize(n, w) ==
    /\ clientWidth[n] # w
    /\ clientWidth' = [clientWidth EXCEPT ![n] = w]
    /\ UNCHANGED <<settings, stored, pending, panel, loaded, surface, doc,
                   plugin, timers, observations>>

(***************************************************************************)
(* Specifications.                                                         *)
(***************************************************************************)
\* the surfaces the workspace events of Spec move between: a non-markdown
\* view and one note being edited
SettingsSurfaces ==
    {sf \in Surfaces : sf.leaf = "graph" \/ (sf.leaf = "note1" /\ Editable(sf))}

\* a first installation loaded on one of these surfaces
InitSettings == Init /\ surface \in SettingsSurfaces

\* the settings tab, its suspended handlers and lifecycle, on the surface that
\* is active
NextSettings ==
    \/ OpenSettings
    \/ \E value \in BOOLEAN : ToggleMenuEnabled(value)
    \/ \E level \in Tiers, value \in BOOLEAN : ToggleTier(level, value)
    \/ SaveDone
    \/ Unload
    \/ Load

SpecSettings == InitSettings /\ [][NextSettings]_vars

\* the same with workspace events handled between and during the handlers
Next ==
    \/ OpenSettings
    \/ \E value \in BOOLEAN : ToggleMenuEnabled(value)
    \/ \E level \in Tiers, value \in BOOLEAN : ToggleTier(level, value)
    \/ SaveDone
    \/ \E sf \in SettingsSurfaces : ActiveLeafChange(sf)
    \/ Unload
    \/ Load

Spec == InitSettings /\ [][Next]_vars

\* all workspace events, the menu toggle, lifecycle
NextOverlay ==
    \/ OpenSettings
    \/ \E value \in BOOLEAN : ToggleMenuEnabled(value)
    \/ SaveDone
    \/ \E sf \in Surfaces : ActiveLeafChange(sf)
    \/ \E sf \in Surfaces : LayoutChange(sf)
    \/ Unload
    \/ Load

SpecOverlay == Init /\ [][NextOverlay]_vars

\* edits, the debounce timer, workspace events and lifecycle, default settings
NextTimed ==
    \/ \E d \in EditDocs : EditorChange(d)
    \/ Tick
    \/ TimerFire
    \/ \E sf \in Surfaces : ActiveLeafChange(sf)
    \/ Unload
    \/ Load

SpecTimed == Init /\ [][NextTimed]_vars

\* edits and the debounce timer alone; time passes and the host runs a
\* timeout that is due
NextDebounce ==
    \/ \E d \in EditDocs : EditorChange(d)
    \/ Tick
    \/ TimerFire

SpecDebounce ==
    Init /\ [][NextDebounce]_vars /\ WF_vars(Tick) /\ WF_vars(TimerFire)

(***************************************************************************)
(* Heading extraction on generated text: a session that loaded a persisted *)
(* record with the menu enabled and any tier flags, with note1 open in     *)
(* source mode, holding either one generated line or a few lines of the    *)
(* kinds the renderer tells apart.                                         *)
(***************************************************************************)
Tails == UNION {[1..k -> Alphabet] : k \in 0..MaxTail}
Lines == {Hashes(n) \o t : n \in 0..MaxHashes, t \in Tails}

KindLines == {HeadingLine(n) : n \in 1..MaxHashes} \cup {<<"a">>}
KindDocs == UNION {[1..k -> KindLines] : k \in 1..MaxLines}

GeneratedDocs == {<<l>> : l \in Lines} \cup KindDocs

TierRecords ==
    {[k \in DOMAIN DefaultSettings |->
        IF k = "enableHeaderMenu" THEN TRUE ELSE f[k]] :
     f \in [{"showH1", "showH2", "showH3"} -> BOOLEAN]}

Note1Editing ==
    [leaf |-> "note1", viewType |-> "markdown", mode |-> "source", editorEl |-> TRUE]

InitHeadings ==
    /\ stored \in TierRecords
    /\ settings = loadSettings(stored)
    /\ pending = <<>>
    /\ panel = {}
    /\ loaded = TRUE
    /\ surface = Note1Editing
    /\ \E d \in GeneratedDocs : doc = [InitialDocs EXCEPT !["note1"] = d]
    /\ clientWidth = InitialWidths
    /\ plugin = createFloatingElements
    /\ timers = {}
    /\ sinceCall = 0
    /\ calls = 0
    /\ burstRuns = 0

NextHeadings ==
    \/ \E sf \in {Note1Editing} : ActiveLeafChange(sf)
    \/ \E sf \in {Note1Editing} : LayoutChange(sf)

SpecHeadings == InitHeadings /\ [][NextHeadings]_vars

\* the container widths the host resizes to, in pixels: a grid from 0 and
\* the neighbours of the width at which 10% reaches the minimum
Widths ==
    {k * WidthStep : k \in 0..MaxWidthSteps}
        \cup {MinMenuWidth * 10 - 1, MinMenuWidth * 10, MinMenuWidth * 10 + 1}

\* resizes of the container of note1 and the workspace events that position
\* the controls against it, default settings
NextLayout ==
    \/ \E w \in Widths : Resize("note1", w)
    \/ ActiveLeafChange(Note1Editing)
    \/ LayoutChange(Note1Editing)

SpecLayout == Init /\ [][NextLayout]_vars

\* the text the edits of SpecQuiet leave in the note
QuietDocs == {<<HeadingLine(1)>>}

\* edits and the debounce timer together with the menu toggle, workspace
\* events and lifecycle; the note is edited after an unload too
NextQuiet ==
    \/ OpenSettings
    \/ \E value \in BOOLEAN : ToggleMenuEnabled(value)
    \/ SaveDone
    \/ \E d \in QuietDocs : EditorChange(d)
    \/ Tick
    \/ TimerFire
    \/ \E sf \in SettingsSurfaces : ActiveLeafChange(sf)
    \/ Unload
    \/ \E d \in QuietDocs : EditUnloaded(d)

SpecQuiet == Init /\ [][NextQuiet]_vars

(***************************************************************************)
(* Vocabulary of the properties.                                           *)
(***************************************************************************)
ShowFlags(s) == [l \in Tiers |-> s[ShowKey(l)]]
HasSnapshot(s) == \E l \in Tiers : PrevKey(l) \in DOMAIN s

TopParent == plugin.topButton.parentElement
MenuParent == plugin.menuContainer.parentElement

\* the three states of the overlay
OverlayState(p) ==
    CASE p.topButton.parentElement = Detached /\ p.menuContainer.parentElement = Detached
           -> "Hidden"
      [] p.topButton.parentElement # Detached /\ p.menuContainer.parentElement = Detached
           -> "AttachedMinimal"
      [] p.topButton.parentElement # Detached /\ p.menuContainer.parentElement # Detached
           -> "AttachedWithMenu"
      [] OTHER -> "MenuOnly"

\* the state the surface and the settings call for
ExpectedOverlay(sf, s) ==
    IF sf.viewType # "markdown" \/ sf.mode # "source" \/ ~sf.editorEl THEN "Hidden"
    ELSE IF s["enableHeaderMenu"] THEN "AttachedWithMenu" ELSE "AttachedMinimal"

\* the headings of a text, in document order
Extracted(lines) ==
    LET idx == SelectSeq([i \in 1..Len(lines) |-> i],
                         LAMBDA i : headerMatch(lines[i]) # {})
    IN [j \in 1..Len(idx) |->
          LET h == CHOOSE x \in headerMatch(lines[idx[j]]) : TRUE
          IN [level |-> h.hashes, text |-> h.text, line |-> idx[j] - 1]]

\* the headings a menu shows under settings s
Shown(lines, s) ==
    SelectSeq(Extracted(lines),
              LAMBDA h : h.level \in Tiers /\ s[ShowKey(h.level)])

\* the rendered items, read back as headings
Rendered(p) ==
    [j \in 1..Len(p.headerList) |->
        [level |-> (p.headerList[j].paddingLeft \div IndentStep) + 1,
         text |-> p.headerList[j].innerText,
         line |-> p.headerList[j].line]]

\* the overlay is what surface sf and settings s call for
OverlayReflects(p, s, sf, d) ==
    /\ OverlayState(p) = ExpectedOverlay(sf, s)
    /\ p.topButton.parentElement \in {Detached, sf.leaf}
    /\ p.menuContainer.parentElement \in {Detached, sf.leaf}
    /\ p.menuContainer.parentElement # Detached => Rendered(p) = Shown(d[sf.leaf], s)

(***************************************************************************)
(* Properties of the settings (specifications SpecSettings and Spec).      *)
(***************************************************************************)
\* C1: in every settings state reached from load() by toggleMenuEnabled and
\* toggleTier, enableHeaderMenu false implies showH1, showH2 and showH3 false.
C1_Coupling ==
    ~settings["enableHeaderMenu"] => \A l \in Tiers : ~settings[ShowKey(l)]

\* a new session that loaded a persisted record with the menu disabled
C1_Witness ==
    /\ loaded /\ panel = {} /\ stored # EmptyObject
    /\ settings = stored
    /\ ~settings["enableHeaderMenu"]
    /\ HasSnapshot(settings)

\* C2: disabling the menu and enabling it at once restores the show flags held
\* before the disable; enabling on settings without a snapshot sets all three.
C2_DisableEnableRestores ==
    [][ /\ ToggleMenuEnabled(FALSE)
           => ShowFlags(toggleMenuEnabled(settings', TRUE)) = ShowFlags(settings)
        /\ (ToggleMenuEnabled(TRUE) /\ ~HasSnapshot(settings))
           => \A l \in Tiers : settings'[ShowKey(l)] ]_vars

\* two handlers in a row, both still suspended: a disable that took a mixed
\* snapshot, then the enable that restored it
C2_Witness ==
    /\ Len(pending) = 2
    /\ ~pending[1]["enableHeaderMenu"]
    /\ HasSnapshot(pending[1])
    /\ ~pending[1]["previousShowH1"] /\ pending[1]["previousShowH2"]
    /\ pending[2]["enableHeaderMenu"]
    /\ ~pending[2]["showH1"] /\ pending[2]["showH2"]
    /\ settings = pending[2]

\* C8: toggleTier(tier, v) sets that tier's flag to v, leaves enableHeaderMenu
\* true if v and unchanged if not v, and changes no other flag nor the snapshot.
C8_ToggleTierFrame ==
    [][ \A level \in Tiers, value \in BOOLEAN :
          ToggleTier(level, value) =>
            /\ settings'[ShowKey(level)] = value
            /\ value => settings'["enableHeaderMenu"]
            /\ ~value => settings'["enableHeaderMenu"] = settings["enableHeaderMenu"]
            /\ \A l \in Tiers \ {level} : settings'[ShowKey(l)] = settings[ShowKey(l)]
            /\ \A l \in Tiers :
                 /\ (PrevKey(l) \in DOMAIN settings') = (PrevKey(l) \in DOMAIN settings)
                 /\ PrevKey(l) \in DOMAIN settings
                      => settings'[PrevKey(l)] = settings[PrevKey(l)] ]_vars

\* a disable whose snapshot is all true, then Show H1 set true while the menu
\* was still disabled: the menu is enabled and only H1 is shown
C8_Witness ==
    /\ Len(pending) = 2
    /\ ~pending[1]["enableHeaderMenu"]
    /\ HasSnapshot(pending[1])
    /\ \A l \in Tiers : pending[1][PrevKey(l)]
    /\ pending[2]["enableHeaderMenu"]
    /\ pending[2]["showH1"] /\ ~pending[2]["showH2"] /\ ~pending[2]["showH3"]
    /\ \A l \in Tiers : pending[2][PrevKey(l)]

\* C7 as stated: when a toggle handler completes, the persisted record equals
\* the settings and the overlay is what the settings call for.
C7_PersistedAtCompletion ==
    [][ SaveDone =>
          /\ stored' = settings'
          /\ OverlayReflects(plugin', settings', surface', doc') ]_vars

\* C7 amended: when a toggle handler completes the overlay is what the
\* settings call for, and the persisted record equals the settings once no
\* other toggle handler is suspended.
C7_AppliedAtCompletion ==
    [][ SaveDone =>
          /\ OverlayReflects(plugin', settings', surface', doc')
          /\ pending' = <<>> => stored' = settings' ]_vars

\* one handler has completed while a later one is suspended: the menu is
\* attached with the list of the current settings, the record is the older one
C7_Witness ==
    /\ Len(pending) = 1
    /\ stored # EmptyObject /\ stored # settings
    /\ settings["enableHeaderMenu"] /\ ~settings["showH1"]
    /\ MenuParent = "note1"
    /\ Len(plugin.headerList) = 2

(***************************************************************************)
(* Properties of the attachment (specification SpecOverlay).               *)
(***************************************************************************)
\* C3: after any sequence of active-leaf-change and layout-change events each
\* element is attached at most once, and an attached element is a child of the
\* container of the active editable surface, never of another one.  Each
\* element is one node with one parentElement, so it is in the tree at most once.
C3_NoStaleParent ==
    /\ TopParent # Detached => (Editable(surface) /\ TopParent = surface.leaf)
    /\ MenuParent # Detached => (Editable(surface) /\ MenuParent = surface.leaf)
    /\ Cardinality({n \in Notes : TopParent = n}) <= 1
    /\ Cardinality({n \in Notes : MenuParent = n}) <= 1

\* both elements moved from note1's container to note2's
C3_Witness ==
    /\ plugin.layoutListeners = <<"note1", "note2">>
    /\ TopParent = "note2" /\ MenuParent = "note2"
    /\ surface.leaf = "note2"

\* C5: when the handler of an active-leaf-change or layout-change event
\* completes the overlay is Hidden if the surface is not a markdown view in
\* source mode with its editor element, AttachedMinimal if it is and the menu
\* is disabled, AttachedWithMenu if it is and the menu is enabled; the overlay
\* is Hidden initially.
C5_OverlayDetermined ==
    /\ OverlayState(plugin) = "Hidden"
    /\ [][ (\E sf \in Surfaces : ActiveLeafChange(sf) \/ LayoutChange(sf))
             => OverlayState(plugin') = ExpectedOverlay(surface', settings') ]_vars

\* the menu was disabled and no save has ever completed, so it is a workspace
\* event that attached the button alone
C5_Witness ==
    /\ stored = EmptyObject
    /\ ~settings["enableHeaderMenu"]
    /\ Editable(surface)
    /\ OverlayState(plugin) = "AttachedMinimal"

(***************************************************************************)
(* Properties of the debounced refresh (specifications SpecDebounce and    *)
(* SpecTimed).  A burst is a run of calls each made while the timeout of   *)
(* the previous one is pending, that is, less than Delay after it.         *)
(***************************************************************************)
InBurst == calls > 0 /\ burstRuns = 0

\* C4: a burst of n >= 1 calls of the debounced trigger runs the wrapped action
\* exactly once, one full delay after the last call of the burst and never
\* earlier, also for a single call with nothing pending.
C4_DebounceOnce ==
    /\ [](/\ burstRuns <= 1
          /\ burstRuns = 1 => (sinceCall = Delay /\ timers = {})
          /\ InBurst => timers = {Delay - sinceCall}
          /\ calls = 0 => (timers = {} /\ burstRuns = 0))
    /\ (InBurst ~> burstRuns = 1)

\* a burst of several calls has been followed by its one run
C4_Witness ==
    /\ calls >= 2
    /\ burstRuns = 1
    /\ sinceCall = Delay
    /\ timers = {}

\* C6 as stated: after onunload both controls are detached and no debounce
\* timer is pending, so the debounced refresh cannot run after the unload.
C6_NothingLeftAfterUnload ==
    ~loaded => (OverlayState(plugin) = "Hidden" /\ timers = {})

(***************************************************************************)
(* Properties of the heading list (specification SpecHeadings).            *)
(***************************************************************************)
\* C9: for every sequence of headings and every combination of showH1, showH2
\* and showH3, the items rendered by a refresh are exactly the headings of
\* level 1, 2 or 3 whose tier flag is true, in document order; a heading of
\* level 4, 5 or 6 is never rendered.
C9_RenderedIsFiltered ==
    MenuParent # Detached =>
        /\ Rendered(plugin) = Shown(doc[surface.leaf], settings)
        /\ \A j \in 1..Len(plugin.headerList) : Rendered(plugin)[j].level <= TierLimit

\* H1 is off: of a level-3, a level-4 and a level-2 heading the menu shows the
\* first and the last, in that order
C9_Witness ==
    /\ MenuParent = "note1"
    /\ doc["note1"] = <<HeadingLine(3), HeadingLine(4), HeadingLine(2)>>
    /\ ~settings["showH1"] /\ settings["showH2"] /\ settings["showH3"]
    /\ Len(plugin.headerList) = 2
    /\ plugin.headerList[1].line = 0 /\ plugin.headerList[2].line = 2

\* the shape of a line: its run of leading '#' and what follows it
LeadingHashes(line) ==
    Cardinality({k \in 1..Len(line) : \A i \in 1..k : line[i] = "#"})
AfterHashes(line) == Drop(line, LeadingHashes(line))
OnlyWhitespace(seq) == seq # <<>> /\ \A i \in 1..Len(seq) : seq[i] \in Whitespace
WhitespaceThenText(seq) ==
    /\ seq # <<>>
    /\ seq[1] \in Whitespace
    /\ \E i \in 1..Len(seq) : seq[i] \notin Whitespace

\* C10 as stated: a line with 7 or more leading '#', a line whose '#' run is not
\* followed by whitespace, and a line whose '#' run is followed only by
\* whitespace give no heading record; a line of 1 to 6 '#', whitespace and
\* non-empty text gives exactly one record, whose level is the number of '#'.
C10_MalformedLinesGiveNoRecord ==
    MenuParent # Detached =>
      \A i \in 1..Len(doc["note1"]) :
        LET line == doc["note1"][i]
            n == LeadingHashes(line)
            rest == AfterHashes(line)
            records == headerMatch(line)
            items == {j \in 1..Len(plugin.headerList) : plugin.headerList[j].line = i - 1}
        IN /\ n > HashLimit => (records = {} /\ items = {})
           /\ (n >= 1 /\ (rest = <<>> \/ rest[1] \notin Whitespace))
                => (records = {} /\ items = {})
           /\ (n >= 1 /\ OnlyWhitespace(rest)) => (records = {} /\ items = {})
           /\ (n \in 1..HashLimit /\ WhitespaceThenText(rest))
                => (Cardinality(records) = 1 /\ \A r \in records : r.hashes = n)

\* a workspace event that ends with the controls attached to an editor
\* container
Positioned ==
    /\ ActiveLeafChange(Note1Editing) \/ LayoutChange(Note1Editing)
    /\ TopParent' # Detached

\* C11: for every container width w of the range, positioning gives the menu
\* and the scroll control the same width max(120, w / 10) pixels (widths are
\* kept in tenths of a pixel), which is 120 pixels for every w <= 1200; the
\* bottom offset of the scroll control is smaller than that of the menu and
\* their right offsets are equal.
C11_PositionedWidth ==
    [][Positioned =>
         LET w == clientWidth'[TopParent']
             menu == plugin'.menuContainer
             top == plugin'.topButton
         IN /\ menu.width = top.width
            /\ top.width >= MinMenuWidth * 10
            /\ top.width >= w
            /\ top.width \in {MinMenuWidth * 10, w}
            /\ w <= 1200 => top.width = 1200
            /\ top.bottom < menu.bottom
            /\ top.right = menu.right]_vars

\* positioned against a container wider than 1200 pixels after having been
\* positioned against a narrower one
C11_Witness ==
    /\ TopParent = "note1"
    /\ clientWidth["note1"] = 1201
    /\ plugin.topButton.width = 1201
    /\ plugin.menuContainer.width = 1201
    /\ Len(plugin.layoutListeners) = MaxListeners

\* C12: the number of layout-change listeners the plugin has registered is
\* bounded by a constant that does not depend on the number of events handled:
\* a workspace event handled while a listener for the container it attaches
\* to is already registered adds no listener.
C12_NoListenerAccumulation ==
    [][\A sf \in Surfaces :
         (/\ ActiveLeafChange(sf) \/ LayoutChange(sf)
          /\ \E i \in 1..Len(plugin.layoutListeners) :
                plugin.layoutListeners[i] = sf.leaf)
           => Len(plugin'.layoutListeners) <= Len(plugin.layoutListeners)]_vars

\* C13: an editor-change delivered while the overlay is Hidden or
\* AttachedMinimal never leads to a re-extraction or re-render: when the
\* debounced refresh runs in one of these states the rendered list stays as
\* it was.
C13_RefreshOnlyWithMenu ==
    [][(TimerFire /\ OverlayState(plugin) \in {"Hidden", "AttachedMinimal"})
         => plugin'.headerList = plugin.headerList]_vars

\* a step in which updateMenu attaches the menu and so runs refreshHeaderList
RefreshByEvent ==
    \E sf \in Surfaces :
      /\ ActiveLeafChange(sf)
      /\ Editable(sf)
      /\ settings["enableHeaderMenu"]

\* the debounced refresh has run less than Delay ago: it ran when sinceCall
\* was Delay
RanWithinWindow == burstRuns >= 1 /\ sinceCall - Delay < Delay

\* C14: over any sequence of editor-change, workspace and settings events,
\* refreshHeaderList runs at most once within any window of 150 time units:
\* no event runs it less than 150 units after the debounced refresh ran.
C14_OneRefreshPerWindow ==
    [][RanWithinWindow => ~RefreshByEvent]_vars

\* the width of each attached control is max(120, 10% of the current width of
\* the container it is attached to), in tenths of a pixel
WidthsCurrent ==
    /\ TopParent # Detached
         => plugin.topButton.width = Max(MinMenuWidth * 10, clientWidth[TopParent])
    /\ MenuParent # Detached
         => plugin.menuContainer.width = Max(MinMenuWidth * 10, clientWidth[MenuParent])

\* C15: after every attach and after every layout-change event that has been
\* handled completely, the width of each attached control is the one computed
\* from the current width of the container the controls are attached to; no
\* width of a previously active container survives.
C15_WidthOfCurrentContainer ==
    [][((\E sf \in Surfaces : ActiveLeafChange(sf) \/ LayoutChange(sf)) \/ SaveDone)
         => WidthsCurrent']_vars

\* no debounce timeout is pending and no onChange handler is suspended at its
\* await
Quiescent == timers = {} /\ pending = <<>>

\* C16: whenever the overlay is AttachedWithMenu, no debounce timer is pending
\* and no handler is in progress, the rendered heading list is the
\* tier-filtered extraction of the current text of the current document under
\* the current settings.
C16_QuiescentListCurrent ==
    (OverlayState(plugin) = "AttachedWithMenu" /\ Quiescent)
      => Rendered(plugin) = Shown(doc[MenuParent], settings)

\* C17 as stated: toggleMenuEnabled(v) is idempotent on the settings
\* (enableHeaderMenu, showH1..3, previousShowH1..3); two consecutive disables
\* followed by an enable restore the tier flags of before the first disable;
\* an enable applied while already enabled leaves the tier flags as they are.
C17_Idempotent ==
    [][\A v \in BOOLEAN :
         ToggleMenuEnabled(v) =>
           /\ toggleMenuEnabled(settings', v) = settings'
           /\ (~v /\ settings["enableHeaderMenu"])
                => ShowFlags(toggleMenuEnabled(toggleMenuEnabled(settings', FALSE), TRUE))
                     = ShowFlags(settings)
           /\ (v /\ settings["enableHeaderMenu"])
                => ShowFlags(settings') = ShowFlags(settings)]_vars

\* C17, amended: toggleMenuEnabled(v) applied twice gives the same
\* enableHeaderMenu and tier flags as applied once, and for v = true the same
\* snapshot too; a second consecutive disable overwrites the snapshot with
\* false, so that a following enable leaves all three tier flags false; an
\* enable sets every tier flag to its snapshot value, or to true where there
\* is none, also when the menu is already enabled.
C17_IdempotentOnFlags ==
    [][\A v \in BOOLEAN :
         ToggleMenuEnabled(v) =>
           LET twice == toggleMenuEnabled(settings', v) IN
           /\ twice["enableHeaderMenu"] = settings'["enableHeaderMenu"]
           /\ ShowFlags(twice) = ShowFlags(settings')
           /\ v => twice = settings'
           /\ ~v => \A l \in Tiers :
                      /\ ~twice[PrevKey(l)]
                      /\ ~toggleMenuEnabled(twice, TRUE)[ShowKey(l)]
           /\ v => \A l \in Tiers :
                     settings'[ShowKey(l)] = Nullish(settings, PrevKey(l), TRUE)]_vars

\* two disables in a row, both handlers still suspended: the first took a
\* snapshot with a tier shown, the second overwrote it
C17_Witness ==
    /\ Len(pending) = 2
    /\ ~pending[1]["enableHeaderMenu"] /\ ~pending[2]["enableHeaderMenu"]
    /\ HasSnapshot(pending[1]) /\ pending[1]["previousShowH1"]
    /\ \A l \in Tiers : ~pending[2][PrevKey(l)]
    /\ settings = pending[2]

\* C18: in every state between two handlers the menu container is attached
\* only if the scroll control is attached to the same editor container.
C18_MenuOnlyWithButton ==
    MenuParent # Detached => TopParent = MenuParent

\* the menu attached next to the scroll control again after it had been
\* disabled and enabled
C18_Witness ==
    /\ MenuParent = "note1" /\ TopParent = "note1"
    /\ settings["enableHeaderMenu"] /\ HasSnapshot(settings)
    /\ pending = <<>>

\* C19: a refresh that runs when there is no active file or no editor raises
\* no error and leaves the heading list empty, never with the items of a
\* previous document, and changes neither the attachment of the two controls
\* nor any setting.
C19_RefreshWithoutEditor ==
    [][(TimerFire /\ (~HasActiveFile(surface) \/ ~HasEditor(surface)))
         => /\ plugin'.headerList = <<>>
            /\ plugin'.topButton.parentElement = plugin.topButton.parentElement
            /\ plugin'.menuContainer.parentElement = plugin.menuContainer.parentElement
            /\ settings' = settings
            /\ stored' = stored]_vars

\* the debounced refresh has run on the graph view and emptied the list that
\* showed the headings of note1 when the user left it
C19_Witness ==
    /\ surface.leaf = "graph"
    /\ burstRuns = 1 /\ timers = {}
    /\ plugin.layoutListeners = <<"note1">>
    /\ doc["note1"] = <<HeadingLine(1)>>
    /\ plugin.headerList = <<>>

====
